---- MODULE Spec2Model ----
(***************************************************************************)
(* A model of the music library of src/main.py: the Song and Playlist      *)
(* entities, the MusicApp store (songs, playlists, undo_stack), the JSON   *)
(* data file that load_data reads and save_data writes, and the text file  *)
(* that export_playlist writes.                                            *)
(*                                                                         *)
(* Text is modelled as a sequence of one-character strings, so that        *)
(* lower(), strip(), split(',') and ', '.join() are computed as Python     *)
(* computes them.  A Song object is a record of its five attributes; a     *)
(* JSON object is a function from its keys, so that a missing key is a     *)
(* key outside its DOMAIN.                                                 *)
(***************************************************************************)
EXTENDS Integers, Sequences, FiniteSets, TLC

VARIABLES songs, playlists, undo_stack, file, save_stages, running, last,
          export_file, net_removals, added

vars == <<songs, playlists, undo_stack, file, save_stages, running, last,
          export_file, net_removals, added>>

(***************************************************************************)
(* Bounds of the model.                                                    *)
(***************************************************************************)
\* Song objects alive at once: those in songs and those on undo_stack.
MaxSongs == 3

\* Playlists in the store.
MaxPlaylists == 2

\* Playlist entries in the store, over all playlists.
MaxEntries == 2

(***************************************************************************)
(* Text helpers: Python's str.lower, str.strip, str.split and str.join.    *)
(***************************************************************************)
Whitespace == {" ", "\n", "\t"}

Digits == {"0", "1", "2", "3", "4", "5", "6", "7", "8", "9"}

LowerChar(c) ==
    CASE c = "A" -> "a"
      [] c = "B" -> "b"
      [] c = "P" -> "p"
      [] c = "Q" -> "q"
      [] OTHER -> c

lower(s) == [i \in 1..Len(s) |-> LowerChar(s[i])]

RECURSIVE lstrip(_)
lstrip(s) ==
    IF s # <<>> /\ Head(s) \in Whitespace THEN lstrip(Tail(s)) ELSE s

RECURSIVE rstrip(_)
rstrip(s) ==
    IF s # <<>> /\ s[Len(s)] \in Whitespace
    THEN rstrip(SubSeq(s, 1, Len(s) - 1))
    ELSE s

strip(s) == rstrip(lstrip(s))

\* s.split(sep) for a one-character separator: always at least one piece.
RECURSIVE split(_, _)
split(s, sep) ==
    IF \E i \in 1..Len(s) : s[i] = sep
    THEN LET i == CHOOSE j \in 1..Len(s) :
                      s[j] = sep /\ \A k \in 1..(j - 1) : s[k] # sep
         IN  <<SubSeq(s, 1, i - 1)>> \o split(SubSeq(s, i + 1, Len(s)), sep)
    ELSE <<s>>

\* sep.join(parts)
RECURSIVE join(_, _)
join(sep, parts) ==
    IF parts = <<>> THEN <<>>
    ELSE IF Len(parts) = 1 THEN parts[1]
    ELSE parts[1] \o sep \o join(sep, Tail(parts))

\* needle in haystack (substring test)
contains(haystack, needle) ==
    \E i \in 0..(Len(haystack) - Len(needle)) :
        SubSeq(haystack, i + 1, i + Len(needle)) = needle

\* re.match(r'^\d+:[0-5]\d$', d): one or more digits, a colon, a digit in
\* 0..5 and a digit; Python's $ also matches before one trailing newline.
FullMatchSong(d) ==
    /\ Len(d) >= 4
    /\ \A i \in 1..(Len(d) - 3) : d[i] \in Digits
    /\ d[Len(d) - 2] = ":"
    /\ d[Len(d) - 1] \in {"0", "1", "2", "3", "4", "5"}
    /\ d[Len(d)] \in Digits

DropFinalNewline(d) ==
    IF d # <<>> /\ d[Len(d)] = "\n" THEN SubSeq(d, 1, Len(d) - 1) ELSE d

MatchSongDuration(d) == FullMatchSong(d) \/ FullMatchSong(DropFinalNewline(d))

\* re.match(r'^\d+:\d{2}$', d), the check of the add loop.
FullMatchLoop(d) ==
    /\ Len(d) >= 4
    /\ \A i \in 1..(Len(d) - 3) : d[i] \in Digits
    /\ d[Len(d) - 2] = ":"
    /\ d[Len(d) - 1] \in Digits
    /\ d[Len(d)] \in Digits

MatchLoopDuration(d) == FullMatchLoop(d) \/ FullMatchLoop(DropFinalNewline(d))

(***************************************************************************)
(* Song: the constructor and the dictionary conversions.                   *)
(***************************************************************************)
Raise(e) == [ok |-> FALSE, error |-> e]

Return(v) == [ok |-> TRUE, value |-> v]

\* Song.__init__: a ValueError for an empty name or a duration the pattern
\* rejects; otherwise the object, its artists split on ',' and stripped.
Song(name, artists, album, genre, duration) ==
    IF name = <<>> THEN Raise("ValueError")
    ELSE IF ~MatchSongDuration(duration) THEN Raise("ValueError")
    ELSE Return([name     |-> name,
                 artists  |-> [i \in 1..Len(split(artists, ",")) |->
                                  strip(split(artists, ",")[i])],
                 album    |-> album,
                 genre    |-> genre,
                 duration |-> duration])

Song_to_dict(song) ==
    [name     |-> song.name,
     artists  |-> song.artists,
     album    |-> song.album,
     genre    |-> song.genre,
     duration |-> song.duration]

SongKeys == {"name", "artists", "album", "genre", "duration"}

\* Mutant of Song_from_dict: the artists are joined by ' ' instead of ', '.
Song_from_dict_join_space(data) ==
    IF ~(SongKeys \subseteq DOMAIN data) THEN Raise("KeyError")
    ELSE Song(data.name, join(<<" ">>, data.artists), data.album,
              data.genre, data.duration)

\* Song.from_dict: the five subscripts are evaluated first (a KeyError for a
\* missing key), then the constructor runs on the artists joined by ', '.
Song_from_dict(data) ==
    IF ~(SongKeys \subseteq DOMAIN data) THEN Raise("KeyError")
    ELSE Song(data.name, join(<<",", " ">>, data.artists), data.album,
              data.genre, data.duration)

\* The outcome of a list comprehension whose elements may raise: the first
\* exception in list order, or the list of the values.
Collect(results) ==
    IF \E i \in 1..Len(results) : ~results[i].ok
    THEN LET i == CHOOSE j \in 1..Len(results) :
                      ~results[j].ok /\ \A k \in 1..(j - 1) : results[k].ok
         IN  Raise(results[i].error)
    ELSE Return([i \in 1..Len(results) |-> results[i].value])

(***************************************************************************)
(* Playlist.                                                               *)
(***************************************************************************)
Playlist(name) == [name |-> name, songs |-> <<>>]

\* Mutant of Playlist_add_song: a song already in the playlist is not added.
Playlist_add_song_unique(playlist, song) ==
    IF \E i \in 1..Len(playlist.songs) : playlist.songs[i] = song
    THEN playlist
    ELSE [playlist EXCEPT !.songs = Append(@, song)]

Playlist_add_song(playlist, song) ==
    [playlist EXCEPT !.songs = Append(@, song)]

\* Mutant of WithoutName: the names are compared without lower().
RECURSIVE WithoutNameCaseSensitive(_, _)
WithoutNameCaseSensitive(s, song_name) ==
    IF s = <<>> THEN <<>>
    ELSE IF Head(s).name # song_name
         THEN <<Head(s)>> \o WithoutNameCaseSensitive(Tail(s), song_name)
         ELSE WithoutNameCaseSensitive(Tail(s), song_name)

\* The list s without the elements whose name equals song_name ignoring case.
RECURSIVE WithoutName(_, _)
WithoutName(s, song_name) ==
    IF s = <<>> THEN <<>>
    ELSE IF lower(Head(s).name) # lower(song_name)
         THEN <<Head(s)>> \o WithoutName(Tail(s), song_name)
         ELSE WithoutName(Tail(s), song_name)

\* Mutant of Playlist_remove_song: only the first matching entry is removed.
Playlist_remove_song_first(playlist, song_name) ==
    IF \E i \in 1..Len(playlist.songs) :
            lower(playlist.songs[i].name) = lower(song_name)
    THEN LET i == CHOOSE i \in 1..Len(playlist.songs) :
                     /\ lower(playlist.songs[i].name) = lower(song_name)
                     /\ \A j \in 1..(i - 1) :
                            lower(playlist.songs[j].name) # lower(song_name)
         IN  [playlist EXCEPT !.songs = SubSeq(@, 1, i - 1) \o
                                        SubSeq(@, i + 1, Len(@))]
    ELSE playlist

Playlist_remove_song(playlist, song_name) ==
    [playlist EXCEPT !.songs = WithoutName(@, song_name)]

Playlist_to_dict(playlist) ==
    [name  |-> playlist.name,
     songs |-> [i \in 1..Len(playlist.songs) |-> Song_to_dict(playlist.songs[i])]]

Playlist_from_dict(data) ==
    IF "name" \notin DOMAIN data THEN Raise("KeyError")
    ELSE IF "songs" \notin DOMAIN data THEN Raise("KeyError")
    ELSE LET got == Collect([i \in 1..Len(data.songs) |->
                                Song_from_dict(data.songs[i])])
         IN  IF got.ok
             THEN Return([name |-> data.name, songs |-> got.value])
             ELSE got

(***************************************************************************)
(* The data file.  Its content is absent (no file), empty (the file just   *)
(* opened for writing), garbage (text json.load cannot parse) or a JSON    *)
(* document: an object (with its keys) or an array at the top level.       *)
(***************************************************************************)
Absent == [kind |-> "absent"]

EmptyFile == [kind |-> "empty"]

Garbage == [kind |-> "garbage"]

JsonObject(data) == [kind |-> "json", top |-> "object", data |-> data]

JsonArray == [kind |-> "json", top |-> "array", data |-> [items |-> <<>>]]

\* The dictionary save_data builds.
SaveDocument(ss, ps) ==
    [songs     |-> [i \in 1..Len(ss) |-> Song_to_dict(ss[i])],
     playlists |-> [i \in 1..Len(ps) |-> Playlist_to_dict(ps[i])]]

\* save_data: open(data_file, 'w') truncates the file, json.dump then
\* writes the document; the file holds the document when save returns.
save_data(ss, ps) == JsonObject(SaveDocument(ss, ps))

\* What the file holds, in order, from the open to the close of one save.
SaveStages(ss, ps) == <<EmptyFile, save_data(ss, ps)>>

\* load_data on a store that __init__ has just emptied: the songs and
\* playlists it leaves and the exception, caught ("JSONDecodeError",
\* "KeyError": printed) or not ("ValueError", "TypeError": raised to the
\* caller of MusicApp()).
load_data(f) ==
    IF f.kind = "absent"
    THEN [songs |-> <<>>, playlists |-> <<>>, error |-> "none"]
    ELSE IF f.kind # "json"
    THEN [songs |-> <<>>, playlists |-> <<>>, error |-> "JSONDecodeError"]
    ELSE IF f.top # "object"
    THEN [songs |-> <<>>, playlists |-> <<>>, error |-> "TypeError"]
    ELSE IF "songs" \notin DOMAIN f.data
    THEN [songs |-> <<>>, playlists |-> <<>>, error |-> "KeyError"]
    ELSE LET ss == Collect([i \in 1..Len(f.data.songs) |->
                               Song_from_dict(f.data.songs[i])])
         IN  IF ~ss.ok
             THEN [songs |-> <<>>, playlists |-> <<>>, error |-> ss.error]
             ELSE IF "playlists" \notin DOMAIN f.data
             THEN [songs |-> ss.value, playlists |-> <<>>, error |-> "KeyError"]
             ELSE LET ps == Collect([i \in 1..Len(f.data.playlists) |->
                                        Playlist_from_dict(f.data.playlists[i])])
                  IN  IF ~ps.ok
                      THEN [songs |-> ss.value, playlists |-> <<>>,
                            error |-> ps.error]
                      ELSE [songs |-> ss.value, playlists |-> ps.value,
                            error |-> "none"]

CaughtErrors == {"JSONDecodeError", "KeyError"}

(***************************************************************************)
(* The inputs the user types (get_valid_input returns them stripped and    *)
(* non-empty).                                                             *)
(***************************************************************************)
Alb == <<"A", "l", "b">>

Rock == <<"R", "o", "c", "k">>

AddInputs ==
    { [name |-> <<"a">>, artists |-> <<"x">>, album |-> Alb, genre |-> Rock,
       duration |-> <<"3", ":", "3", "0">>],
      [name |-> <<"A">>, artists |-> <<"x", " ", ",", "y">>, album |-> Alb,
       genre |-> Rock, duration |-> <<"4", ":", "0", "5">>],
      [name |-> <<"b">>, artists |-> <<"x", ",", ",", "y">>, album |-> Alb,
       genre |-> Rock, duration |-> <<"1", "0", ":", "5", "9">>],
      [name |-> <<"b">>, artists |-> <<"x">>, album |-> Alb, genre |-> Rock,
       duration |-> <<"5", ":", "9", "9">>],
      [name |-> <<"b">>, artists |-> <<"x">>, album |-> Alb, genre |-> Rock,
       duration |-> <<"a", "b", "c">>],
      [name |-> <<"Q">>, artists |-> <<"x">>, album |-> Alb, genre |-> Rock,
       duration |-> <<"3", ":", "3", "0">>] }

SongNames == {<<"A">>, <<"b">>}

NewPlaylistNames == {<<"p">>, <<"P">>, <<"r">>}

PlaylistNames == {<<"P">>, <<"r">>}

(***************************************************************************)
(* Lookups: next((x for x in xs if x.name.lower() == name.lower()), None). *)
(***************************************************************************)
Matches(xs, name) == {i \in 1..Len(xs) : lower(xs[i].name) = lower(name)}

\* Mutant of FirstMatch: the last match is taken.
LastMatch(xs, name) ==
    IF Matches(xs, name) = {} THEN 0
    ELSE CHOOSE i \in Matches(xs, name) : \A j \in Matches(xs, name) : i >= j

\* The position of the first match, 0 for None.
FirstMatch(xs, name) ==
    IF Matches(xs, name) = {} THEN 0
    ELSE CHOOSE i \in Matches(xs, name) : \A j \in Matches(xs, name) : i <= j

RECURSIVE TotalEntries(_)
TotalEntries(ps) ==
    IF ps = <<>> THEN 0 ELSE Len(Head(ps).songs) + TotalEntries(Tail(ps))

\* list.remove of the object at position i.
RemoveAt(xs, i) == SubSeq(xs, 1, i - 1) \o SubSeq(xs, i + 1, Len(xs))

(***************************************************************************)
(* History: the last operation, with the texts typed, its outcome and the  *)
(* store it started from; for an undo, also whether the operation before   *)
(* it was a confirmed removal, and which.  save_stages is what the data    *)
(* file held, in order, from before the open to the close of the save the  *)
(* last operation made (empty when it made none).                          *)
(***************************************************************************)
Store == [songs |-> songs, playlists |-> playlists,
          undo_stack |-> undo_stack, file |-> file]

NoArgs == [none |-> TRUE]

NoSummary == [op |-> "other", out |-> "none"]

\* The playlists a confirmed removal took entries from.
Cascaded(rec) ==
    {k \in 1..Len(rec.pre.playlists) :
        Matches(rec.pre.playlists[k].songs, rec.args.song_name) # {}}

\* The operations that end the process: choice 3 of main_menu, and an
\* exception that leaves main_menu.
Ended(rec) ==
    \/ rec.op = "exit"
    \/ rec.op = "add_multiple_songs" /\ rec.out = "ValueError"

\* What is kept of the operation before an undo or before a new run: of a
\* confirmed removal its name, its cascade and the songs before it, of the end of a run the songs and
\* the undo log the process had, of a new run those of the run before it.
Summary(rec) ==
    IF rec.op = "remove_song" /\ rec.out = "removed"
    THEN [op |-> rec.op, out |-> rec.out, song_name |-> rec.args.song_name,
          count |-> Len(rec.pre.songs), cascaded |-> Cascaded(rec),
          songs |-> rec.pre.songs]
    ELSE IF Ended(rec)
    THEN [op |-> "ended", out |-> rec.out, songs |-> rec.pre.songs,
          undo_stack |-> rec.pre.undo_stack]
    ELSE IF rec.op = "MusicApp" /\ rec.after.op = "ended"
    THEN [op |-> "MusicApp", out |-> rec.out, songs |-> rec.after.songs,
          undo_stack |-> rec.after.undo_stack]
    ELSE NoSummary

\* The count, kept beside the program, of the removals this run completed
\* less the undos of this run that restored a song.
Count(op, out) ==
    net_removals' =
        IF op = "MusicApp" \/ Ended([op |-> op, out |-> out]) THEN 0
        ELSE IF op = "remove_song" /\ out = "removed" THEN net_removals + 1
        ELSE IF op = "undo" /\ out = "restored" THEN net_removals - 1
        ELSE net_removals

\* The songs of a sequence, each with the number of times it is there.
NoSongs == [song \in {} |-> 0]

Numbered(ss) ==
    [song \in {ss[i] : i \in 1..Len(ss)} |->
        Cardinality({i \in 1..Len(ss) : ss[i] = song})]

OneMore(numbered, song) ==
    IF song \in DOMAIN numbered
    THEN [numbered EXCEPT ![song] = @ + 1]
    ELSE numbered @@ (song :> 1)

\* The list, kept beside the program, of the songs this run began with (none
\* for a run from an empty store) and of the songs it added, each with the
\* number of times it was added.
Add(op, args, out) ==
    added' =
        IF op = "MusicApp" THEN Numbered(songs')
        ELSE IF Ended([op |-> op, out |-> out]) THEN NoSongs
        ELSE IF op = "add_multiple_songs" /\ out = "added"
        THEN OneMore(added, Song(args.name, args.artists, args.album,
                                 args.genre, args.duration).value)
        ELSE added

Remember(op, args, out) ==
    /\ last' = [op |-> op, args |-> args, out |-> out, pre |-> Store,
                after |-> IF op \in {"undo", "MusicApp"} THEN Summary(last)
                          ELSE NoSummary]
    /\ Count(op, out)
    /\ Add(op, args, out)

\* The export file the last operation wrote: only export_playlist opens one.
NotWritten == [written |-> FALSE]

Record(op, args, out) ==
    /\ Remember(op, args, out)
    /\ export_file' = NotWritten

\* Mutant of Save: the store is written as it was before the operation.
SaveBeforeMutation(ss, ps) ==
    /\ file' = save_data(songs, playlists)
    /\ save_stages' = <<file>> \o SaveStages(songs, playlists)

\* The effect of self.save_data() once the store is ss, ps.
Save(ss, ps) ==
    /\ file' = save_data(ss, ps)
    /\ save_stages' = <<file>> \o SaveStages(ss, ps)

NoSave ==
    /\ UNCHANGED file
    /\ save_stages' = <<>>

(***************************************************************************)
(* The operations of MusicApp.                                             *)
(***************************************************************************)
Init ==
    /\ songs = <<>>
    /\ playlists = <<>>
    /\ undo_stack = <<>>
    /\ file = Absent
    /\ save_stages = <<>>
    /\ export_file = NotWritten
    /\ net_removals = 0
    /\ added = NoSongs
    /\ running = TRUE
    /\ last = [op |-> "MusicApp", args |-> NoArgs, out |-> "none",
               pre |-> [songs |-> <<>>, playlists |-> <<>>,
                        undo_stack |-> <<>>, file |-> Absent],
               after |-> NoSummary]

\* One round of the loop of add_multiple_songs, on the five texts typed.
add_multiple_songs ==
    /\ running
    /\ Len(songs) + Len(undo_stack) < MaxSongs
    /\ \E in \in AddInputs :
          IF lower(in.name) = <<"q">>
          THEN /\ UNCHANGED <<songs, playlists, undo_stack, running>>
               /\ NoSave
               /\ Record("add_multiple_songs", [name |-> in.name], "quit")
          ELSE IF ~MatchLoopDuration(in.duration)
          THEN /\ UNCHANGED <<songs, playlists, undo_stack, running>>
               /\ NoSave
               /\ Record("add_multiple_songs", in, "invalid_format")
          ELSE LET made == Song(in.name, in.artists, in.album, in.genre,
                                in.duration)
               IN  IF made.ok
                   THEN /\ songs' = Append(songs, made.value)
                        /\ UNCHANGED <<playlists, undo_stack, running>>
                        /\ Save(songs', playlists)
                        /\ Record("add_multiple_songs", in, "added")
                   ELSE \* the ValueError leaves songs_menu and main_menu:
                        \* the process ends and its store with it
                        /\ running' = FALSE
                        /\ songs' = <<>>
                        /\ playlists' = <<>>
                        /\ undo_stack' = <<>>
                        /\ NoSave
                        /\ Record("add_multiple_songs", in, made.error)

\* Mutant of remove_song: the undo entry is pushed before the confirmation
\* is asked.
remove_song_push_first ==
    /\ running
    /\ \E song_name \in SongNames :
          LET i == FirstMatch(songs, song_name)
          IN  IF i # 0
              THEN \E confirm \in BOOLEAN :
                      LET args == [song_name |-> song_name, confirm |-> confirm]
                      IN  /\ undo_stack' =
                                Append(undo_stack, <<"remove", songs[i]>>)
                          /\ IF confirm
                             THEN /\ songs' = RemoveAt(songs, i)
                                  /\ playlists' = [k \in 1..Len(playlists) |->
                                        [playlists[k] EXCEPT
                                            !.songs = WithoutName(@, song_name)]]
                                  /\ UNCHANGED running
                                  /\ Save(songs', playlists')
                                  /\ Record("remove_song", args, "removed")
                             ELSE /\ UNCHANGED <<songs, playlists, running>>
                                  /\ NoSave
                                  /\ Record("remove_song", args, "canceled")
              ELSE /\ UNCHANGED <<songs, playlists, undo_stack, running>>
                   /\ NoSave
                   /\ Record("remove_song", [song_name |-> song_name],
                             "not_found")

\* Mutant of remove_song: the removed song is not put on the undo log.
remove_song_unlogged ==
    /\ running
    /\ \E song_name \in SongNames :
          LET i == FirstMatch(songs, song_name)
          IN  IF i # 0
              THEN \E confirm \in BOOLEAN :
                      LET args == [song_name |-> song_name, confirm |-> confirm]
                      IN  IF confirm
                          THEN /\ songs' = RemoveAt(songs, i)
                               /\ playlists' = [k \in 1..Len(playlists) |->
                                     [playlists[k] EXCEPT
                                         !.songs = WithoutName(@, song_name)]]
                               /\ UNCHANGED <<undo_stack, running>>
                               /\ Save(songs', playlists')
                               /\ Record("remove_song", args, "removed")
                          ELSE /\ UNCHANGED <<songs, playlists, undo_stack,
                                              running>>
                               /\ NoSave
                               /\ Record("remove_song", args, "canceled")
              ELSE /\ UNCHANGED <<songs, playlists, undo_stack, running>>
                   /\ NoSave
                   /\ Record("remove_song", [song_name |-> song_name],
                             "not_found")

remove_song ==
    /\ running
    /\ \E song_name \in SongNames :
          LET i == FirstMatch(songs, song_name)
          IN  IF i # 0
              THEN \E confirm \in BOOLEAN :
                      LET args == [song_name |-> song_name, confirm |-> confirm]
                      IN  IF confirm
                          THEN /\ undo_stack' =
                                     Append(undo_stack, <<"remove", songs[i]>>)
                               /\ songs' = RemoveAt(songs, i)
                               /\ playlists' = [k \in 1..Len(playlists) |->
                                     [playlists[k] EXCEPT
                                         !.songs = WithoutName(@, song_name)]]
                               /\ UNCHANGED running
                               /\ Save(songs', playlists')
                               /\ Record("remove_song", args, "removed")
                          ELSE /\ UNCHANGED <<songs, playlists, undo_stack,
                                              running>>
                               /\ NoSave
                               /\ Record("remove_song", args, "canceled")
              ELSE /\ UNCHANGED <<songs, playlists, undo_stack, running>>
                   /\ NoSave
                   /\ Record("remove_song", [song_name |-> song_name],
                             "not_found")

\* Mutant of undo: the restored song is also appended to the first playlist.
undo_into_playlist ==
    /\ running
    /\ IF undo_stack = <<>>
       THEN /\ UNCHANGED <<songs, playlists, undo_stack, running>>
            /\ NoSave
            /\ Record("undo", NoArgs, "nothing_to_undo")
       ELSE LET last_action == undo_stack[Len(undo_stack)]
            IN  /\ undo_stack' = SubSeq(undo_stack, 1, Len(undo_stack) - 1)
                /\ songs' = Append(songs, last_action[2])
                /\ playlists' = IF playlists = <<>> THEN playlists
                                ELSE [playlists EXCEPT
                                        ![1] = Playlist_add_song(@, last_action[2])]
                /\ Save(songs', playlists')
                /\ Record("undo", NoArgs, "restored")
                /\ UNCHANGED running

\* Mutant of undo: the stack is popped without the emptiness check, so an
\* empty stack raises IndexError and the process ends.
undo_unguarded ==
    /\ running
    /\ IF undo_stack = <<>>
       THEN /\ running' = FALSE
            /\ songs' = <<>>
            /\ playlists' = <<>>
            /\ undo_stack' = <<>>
            /\ NoSave
            /\ Record("undo", NoArgs, "IndexError")
       ELSE LET last_action == undo_stack[Len(undo_stack)]
            IN  /\ undo_stack' = SubSeq(undo_stack, 1, Len(undo_stack) - 1)
                /\ songs' = Append(songs, last_action[2])
                /\ Save(songs', playlists)
                /\ Record("undo", NoArgs, "restored")
                /\ UNCHANGED <<playlists, running>>

\* Mutant of undo: the oldest entry of the stack is taken (first in, first out).
undo_fifo ==
    /\ running
    /\ IF undo_stack = <<>>
       THEN /\ UNCHANGED <<songs, playlists, undo_stack, running>>
            /\ NoSave
            /\ Record("undo", NoArgs, "nothing_to_undo")
       ELSE LET last_action == undo_stack[1]
            IN  /\ undo_stack' = SubSeq(undo_stack, 2, Len(undo_stack))
                /\ songs' = Append(songs, last_action[2])
                /\ Save(songs', playlists)
                /\ Record("undo", NoArgs, "restored")
                /\ UNCHANGED <<playlists, running>>

\* Mutant of undo: the restored song is put at the front of songs.
undo_insert_front ==
    /\ running
    /\ IF undo_stack = <<>>
       THEN /\ UNCHANGED <<songs, playlists, undo_stack, running>>
            /\ NoSave
            /\ Record("undo", NoArgs, "nothing_to_undo")
       ELSE LET last_action == undo_stack[Len(undo_stack)]
            IN  /\ undo_stack' = SubSeq(undo_stack, 1, Len(undo_stack) - 1)
                /\ songs' = <<last_action[2]>> \o songs
                /\ Save(songs', playlists)
                /\ Record("undo", NoArgs, "restored")
                /\ UNCHANGED <<playlists, running>>

undo ==
    /\ running
    /\ IF undo_stack = <<>>
       THEN /\ UNCHANGED <<songs, playlists, undo_stack, running>>
            /\ NoSave
            /\ Record("undo", NoArgs, "nothing_to_undo")
       ELSE LET last_action == undo_stack[Len(undo_stack)]
            IN  /\ undo_stack' = SubSeq(undo_stack, 1, Len(undo_stack) - 1)
                /\ IF last_action[1] = "remove"
                   THEN /\ songs' = Append(songs, last_action[2])
                        /\ Save(songs', playlists)
                        /\ Record("undo", NoArgs, "restored")
                   ELSE /\ UNCHANGED songs
                        /\ NoSave
                        /\ Record("undo", NoArgs, "ignored")
                /\ UNCHANGED <<playlists, running>>

\* Mutant of create_playlist: a name that a playlist already has (ignoring
\* case) is refused.
create_playlist_unique ==
    /\ running
    /\ Len(playlists) < MaxPlaylists
    /\ \E name \in NewPlaylistNames :
          IF FirstMatch(playlists, name) = 0
          THEN /\ playlists' = Append(playlists, Playlist(name))
               /\ UNCHANGED <<songs, undo_stack, running>>
               /\ Save(songs, playlists')
               /\ Record("create_playlist", [name |-> name], "created")
          ELSE /\ UNCHANGED <<songs, playlists, undo_stack, running>>
               /\ NoSave
               /\ Record("create_playlist", [name |-> name], "exists")

create_playlist ==
    /\ running
    /\ Len(playlists) < MaxPlaylists
    /\ \E name \in NewPlaylistNames :
          /\ playlists' = Append(playlists, Playlist(name))
          /\ UNCHANGED <<songs, undo_stack, running>>
          /\ Save(songs, playlists')
          /\ Record("create_playlist", [name |-> name], "created")

\* Mutant of add_song_to_playlist: the addition is entered in the undo log.
add_song_to_playlist_logged ==
    /\ running
    /\ \E song_name \in SongNames, playlist_name \in PlaylistNames :
          LET i    == FirstMatch(songs, song_name)
              k    == FirstMatch(playlists, playlist_name)
              args == [song_name |-> song_name, playlist_name |-> playlist_name]
          IN  IF i # 0 /\ k # 0
              THEN /\ TotalEntries(playlists) < MaxEntries
                   /\ playlists' = [playlists EXCEPT
                                       ![k] = Playlist_add_song(@, songs[i])]
                   /\ undo_stack' = Append(undo_stack, <<"add", songs[i]>>)
                   /\ UNCHANGED <<songs, running>>
                   /\ Save(songs, playlists')
                   /\ Record("add_song_to_playlist", args, "added")
              ELSE /\ UNCHANGED <<songs, playlists, undo_stack, running>>
                   /\ NoSave
                   /\ Record("add_song_to_playlist", args, "not_found")

\* Mutant of add_song_to_playlist: the last song of that name is taken.
add_song_to_playlist_last_match ==
    /\ running
    /\ \E song_name \in SongNames, playlist_name \in PlaylistNames :
          LET i    == LastMatch(songs, song_name)
              k    == FirstMatch(playlists, playlist_name)
              args == [song_name |-> song_name, playlist_name |-> playlist_name]
          IN  IF i # 0 /\ k # 0
              THEN /\ TotalEntries(playlists) < MaxEntries
                   /\ playlists' = [playlists EXCEPT
                                       ![k] = Playlist_add_song(@, songs[i])]
                   /\ UNCHANGED <<songs, undo_stack, running>>
                   /\ Save(songs, playlists')
                   /\ Record("add_song_to_playlist", args, "added")
              ELSE /\ UNCHANGED <<songs, playlists, undo_stack, running>>
                   /\ NoSave
                   /\ Record("add_song_to_playlist", args, "not_found")

add_song_to_playlist ==
    /\ running
    /\ \E song_name \in SongNames, playlist_name \in PlaylistNames :
          LET i    == FirstMatch(songs, song_name)
              k    == FirstMatch(playlists, playlist_name)
              args == [song_name |-> song_name, playlist_name |-> playlist_name]
          IN  IF i # 0 /\ k # 0
              THEN /\ TotalEntries(playlists) < MaxEntries
                   /\ playlists' = [playlists EXCEPT
                                       ![k] = Playlist_add_song(@, songs[i])]
                   /\ UNCHANGED <<songs, undo_stack, running>>
                   /\ Save(songs, playlists')
                   /\ Record("add_song_to_playlist", args, "added")
              ELSE /\ UNCHANGED <<songs, playlists, undo_stack, running>>
                   /\ NoSave
                   /\ Record("add_song_to_playlist", args, "not_found")

\* s.replace(old, new) for one-character old and new.
replace(s, old, new) == [i \in 1..Len(s) |-> IF s[i] = old THEN new ELSE s[i]]

\* The texts export_playlist writes, one per call of f.write.
PlaylistLine(playlist) ==
    <<"P", "l", "a", "y", "l", "i", "s", "t", ":", " ">> \o playlist.name
        \o <<"\n">>

SongsLine == <<"S", "o", "n", "g", "s", ":", "\n">>

SongLine(song) ==
    song.name \o <<" ", "b", "y", " ">> \o join(<<",", " ">>, song.artists)
        \o <<" ", "(">> \o song.duration \o <<")", "\n">>

\* The names typed for an export; a playlist of that name may have been
\* made or not.
ExportNames == {<<"p">>, <<"r">>}

\* Mutant of export_playlist: "Songs:" is written for an empty playlist too.
export_playlist_songs_header ==
    /\ running
    /\ \E playlist_name \in ExportNames :
          LET k    == FirstMatch(playlists, playlist_name)
              args == [playlist_name |-> playlist_name]
          IN  /\ UNCHANGED <<songs, playlists, undo_stack, running>>
              /\ NoSave
              /\ IF k # 0
                 THEN /\ export_file' =
                           [written   |-> TRUE,
                            file_name |-> replace(playlist_name, " ", "_")
                                            \o <<".", "t", "x", "t">>,
                            content   |->
                               <<PlaylistLine(playlists[k]), SongsLine>> \o
                               [i \in 1..Len(playlists[k].songs) |->
                                   SongLine(playlists[k].songs[i])]]
                      /\ Remember("export_playlist", args, "exported")
                 ELSE /\ export_file' = NotWritten
                      /\ Remember("export_playlist", args, "not_found")

export_playlist ==
    /\ running
    /\ \E playlist_name \in ExportNames :
          LET k    == FirstMatch(playlists, playlist_name)
              args == [playlist_name |-> playlist_name]
          IN  /\ UNCHANGED <<songs, playlists, undo_stack, running>>
              /\ NoSave
              /\ IF k # 0
                 THEN /\ export_file' =
                           [written   |-> TRUE,
                            file_name |-> replace(playlist_name, " ", "_")
                                            \o <<".", "t", "x", "t">>,
                            content   |->
                               <<PlaylistLine(playlists[k])>> \o
                               (IF playlists[k].songs # <<>>
                                THEN <<SongsLine>> \o
                                     [i \in 1..Len(playlists[k].songs) |->
                                         SongLine(playlists[k].songs[i])]
                                ELSE <<>>)]
                      /\ Remember("export_playlist", args, "exported")
                 ELSE /\ export_file' = NotWritten
                      /\ Remember("export_playlist", args, "not_found")

\* The text typed for a search: it is part of the names a and A, not of b.
SearchTerms == {<<"A">>}

\* Mutant of search_songs: the term is compared with the names as typed,
\* without lowering either.
search_songs_case_sensitive ==
    /\ running
    /\ \E search_term \in SearchTerms :
          LET results == SelectSeq(songs,
                            LAMBDA song : contains(song.name, search_term))
          IN  /\ UNCHANGED <<songs, playlists, undo_stack, running>>
              /\ NoSave
              /\ Record("search_songs",
                        [search_term |-> search_term, results |-> results],
                        IF results # <<>> THEN "results" ELSE "no_match")

search_songs ==
    /\ running
    /\ \E search_term \in SearchTerms :
          LET results == SelectSeq(songs,
                            LAMBDA song : contains(lower(song.name),
                                                   lower(search_term)))
          IN  /\ UNCHANGED <<songs, playlists, undo_stack, running>>
              /\ NoSave
              /\ Record("search_songs",
                        [search_term |-> search_term, results |-> results],
                        IF results # <<>> THEN "results" ELSE "no_match")

\* test_save_and_load of runtime_analysis.py: save_data() and then
\* load_data() on the store in use.  load_data assigns self.songs and
\* self.playlists as far as it gets; when it is caught with no song read,
\* either nothing was assigned or the file, and so the store, had none.
test_save_and_load ==
    /\ running
    /\ \E got \in {load_data(save_data(songs, playlists))} :
           /\ Save(songs, playlists)
           /\ IF got.error = "none"
              THEN /\ songs' = got.songs
                   /\ playlists' = got.playlists
                   /\ UNCHANGED <<undo_stack, running>>
              ELSE IF got.error \in CaughtErrors
              THEN /\ songs' = IF got.songs = <<>> THEN songs ELSE got.songs
                   /\ UNCHANGED <<playlists, undo_stack, running>>
              ELSE /\ running' = FALSE
                   /\ songs' = <<>>
                   /\ playlists' = <<>>
                   /\ undo_stack' = <<>>
           /\ Record("test_save_and_load", NoArgs, got.error)

\* Choice 3 of main_menu: save and leave the loop; the process ends and
\* its store with it.
exit ==
    /\ running
    /\ running' = FALSE
    /\ songs' = <<>>
    /\ playlists' = <<>>
    /\ undo_stack' = <<>>
    /\ Save(songs, playlists)
    /\ Record("exit", NoArgs, "exited")

\* A new run of the program: MusicApp() empties the store and loads the
\* data file; an exception load_data does not catch leaves the constructor,
\* so no store is made and the run ends.
\* Mutant of MusicApp: the undo log of a run ended by choice 3 is taken up
\* again by the next run.
MusicApp_undo_kept ==
    /\ ~running
    /\ LET got == load_data(file)
       IN  /\ IF got.error \in CaughtErrors \cup {"none"}
              THEN /\ songs' = got.songs
                   /\ playlists' = got.playlists
                   /\ running' = TRUE
              ELSE /\ songs' = <<>>
                   /\ playlists' = <<>>
                   /\ running' = FALSE
           /\ undo_stack' = IF last.op = "exit" THEN last.pre.undo_stack
                            ELSE <<>>
           /\ NoSave
           /\ Record("MusicApp", NoArgs, got.error)

MusicApp ==
    /\ ~running
    /\ LET got == load_data(file)
       IN  /\ IF got.error \in CaughtErrors \cup {"none"}
              THEN /\ songs' = got.songs
                   /\ playlists' = got.playlists
                   /\ running' = TRUE
              ELSE /\ songs' = <<>>
                   /\ playlists' = <<>>
                   /\ running' = FALSE
           /\ undo_stack' = <<>>
           /\ NoSave
           /\ Record("MusicApp", NoArgs, got.error)

Next ==
    \/ add_multiple_songs
    \/ remove_song
    \/ undo
    \/ create_playlist
    \/ add_song_to_playlist
    \/ export_playlist
    \/ search_songs
    \/ test_save_and_load
    \/ exit
    \/ MusicApp

Spec == Init /\ [][Next]_vars

(***************************************************************************)
(* Loading a data file the program did not write.  The file is any of:     *)
(* no file, an empty file, unparsable text, a JSON array, or a JSON object *)
(* with or without its "songs" and "playlists" keys, whose song records    *)
(* may lack a key or fail the validation of Song.                          *)
(***************************************************************************)
MaxFileSongs == 2

GoodSong1 ==
    [name |-> <<"a">>, artists |-> <<<<"x">>>>, album |-> Alb, genre |-> Rock,
     duration |-> <<"3", ":", "3", "0">>]

GoodSong2 ==
    [name |-> <<"b">>, artists |-> <<<<"x">>, <<"y">>>>, album |-> Alb,
     genre |-> Rock, duration |-> <<"4", ":", "0", "5">>]

SongRecords ==
    { GoodSong1,
      GoodSong2,
      [GoodSong1 EXCEPT !.duration = <<"5", ":", "9", "9">>],
      [GoodSong1 EXCEPT !.name = <<>>],
      [k \in SongKeys \ {"duration"} |-> GoodSong1[k]] }

SongRecordLists ==
    UNION { [1..n -> SongRecords] : n \in 0..MaxFileSongs }

PlaylistRecordLists ==
    { <<>>,
      <<[name |-> <<"p">>, songs |-> <<GoodSong1, GoodSong1>>]>>,
      <<[name |-> <<"p">>, songs |-> <<>>], [name |-> <<"p">>]>>,
      <<[songs |-> <<GoodSong2>>]>>,
      <<[name |-> <<"p">>,
         songs |-> <<[GoodSong1 EXCEPT !.duration = <<"5", ":", "9", "9">>]>>]>> }

LoadFiles ==
    {Absent, EmptyFile, Garbage, JsonArray}
    \cup {JsonObject([songs |-> ss, playlists |-> ps]) :
             ss \in SongRecordLists, ps \in PlaylistRecordLists}
    \cup {JsonObject([songs |-> ss]) : ss \in SongRecordLists}
    \cup {JsonObject([playlists |-> ps]) : ps \in PlaylistRecordLists}

\* Before the program starts, with some file in place.
InitLoad ==
    /\ songs = <<>>
    /\ playlists = <<>>
    /\ undo_stack = <<>>
    /\ file \in LoadFiles
    /\ save_stages = <<>>
    /\ export_file = NotWritten
    /\ net_removals = 0
    /\ added = NoSongs
    /\ running = FALSE
    /\ last = [op |-> "none", args |-> NoArgs, out |-> "none",
               pre |-> [songs |-> <<>>, playlists |-> <<>>,
                        undo_stack |-> <<>>, file |-> file],
               after |-> NoSummary]

NextLoad == MusicApp

SpecLoad == InitLoad /\ [][NextLoad]_vars

(***************************************************************************)
(* Constructing one song: Song(name, artists, album, genre, duration) on   *)
(* texts that did not pass get_valid_input (a caller such as the tests or  *)
(* Song.from_dict hands them over as they are).  The song made, if any, is *)
(* held in songs.                                                          *)
(***************************************************************************)
SongNameInputs ==
    { <<>>, <<" ">>, <<" ", " ">>, <<"\t">>, <<"a">>, <<" ", "a">> }

SongArtistsInputs == { <<"x">>, <<"x", ",", " ", "y">> }

DurationInputs ==
    { <<"3", ":", "3", "0">>, <<"0", ":", "0", "0">>,
      <<"1", "0", ":", "5", "9">>, <<"5", ":", "9", "9">>,
      <<"5", ":", "6", "0">>, <<"a", "b", "c">>, <<>>,
      <<"3", ":", "3", "0", "\n">>, <<"3", ":", "3", "0", "\n", "\n">>,
      <<"3", ":", "3">>, <<":", "3", "0">>, <<"3", ":", "3", "0", "0">>,
      <<"3", ".", "3", "0">>, <<"1", "2", ":", "5", "a">>,
      <<" ", "3", ":", "3", "0">>, <<"3", ":", "3", "0", " ">> }

SongInputs ==
    [name : SongNameInputs, artists : SongArtistsInputs, album : {Alb},
     genre : {Rock}, duration : DurationInputs]

InitSong ==
    /\ songs = <<>>
    /\ playlists = <<>>
    /\ undo_stack = <<>>
    /\ file = Absent
    /\ save_stages = <<>>
    /\ export_file = NotWritten
    /\ net_removals = 0
    /\ added = NoSongs
    /\ running = FALSE
    /\ \E in \in SongInputs :
          last = [op |-> "none", args |-> in, out |-> "none",
                  pre |-> [songs |-> <<>>, playlists |-> <<>>,
                           undo_stack |-> <<>>, file |-> Absent],
                  after |-> NoSummary]

\* song = Song(name, artists, album, genre, duration)
construct_song ==
    /\ last.op = "none"
    /\ LET in   == last.args
           made == Song(in.name, in.artists, in.album, in.genre, in.duration)
       IN  /\ songs' = IF made.ok THEN <<made.value>> ELSE <<>>
           /\ UNCHANGED <<playlists, undo_stack, running>>
           /\ NoSave
           /\ Record("Song", in, IF made.ok THEN "made" ELSE made.error)

NextSong == construct_song

SpecSong == InitSong /\ [][NextSong]_vars

(***************************************************************************)
(* Removing a name from one playlist: playlist.remove_song(song_name), on  *)
(* a playlist that may hold a song several times.                          *)
(***************************************************************************)
MaxPlaylistSongs == 3

EntrySongs ==
    { Song(in.name, in.artists, in.album, in.genre, in.duration).value :
        in \in { a \in AddInputs :
                    /\ lower(a.name) # <<"q">>
                    /\ Song(a.name, a.artists, a.album, a.genre,
                            a.duration).ok } }

EntryLists ==
    UNION { [1..n -> EntrySongs] : n \in 0..MaxPlaylistSongs }

RemoveNames == { <<"a">>, <<"B">>, <<"c">> }

InitPlaylist ==
    /\ songs = <<>>
    /\ undo_stack = <<>>
    /\ file = Absent
    /\ save_stages = <<>>
    /\ export_file = NotWritten
    /\ net_removals = 0
    /\ added = NoSongs
    /\ running = FALSE
    /\ \E entries \in EntryLists :
          playlists = <<[Playlist(<<"P">>) EXCEPT !.songs = entries]>>
    /\ \E song_name \in RemoveNames :
          last = [op |-> "none", args |-> [song_name |-> song_name],
                  out |-> "none",
                  pre |-> [songs |-> <<>>, playlists |-> <<>>,
                           undo_stack |-> <<>>, file |-> Absent],
                  after |-> NoSummary]

\* playlists[0].remove_song(song_name)
playlist_remove_song ==
    /\ last.op = "none"
    /\ playlists' = <<Playlist_remove_song(playlists[1], last.args.song_name)>>
    /\ UNCHANGED <<songs, undo_stack, running>>
    /\ NoSave
    /\ Record("Playlist.remove_song", last.args, "none")

NextPlaylist == playlist_remove_song

SpecPlaylist == InitPlaylist /\ [][NextPlaylist]_vars

(***************************************************************************)
(* Helpers of the properties.                                              *)
(***************************************************************************)
SameName(a, b) == lower(a) = lower(b)

HasName(xs, name) == \E i \in 1..Len(xs) : SameName(xs[i].name, name)

\* The position of the first element of xs named name, as the properties
\* state it.
IsFirstNamed(xs, name, i) ==
    /\ i \in 1..Len(xs)
    /\ SameName(xs[i].name, name)
    /\ \A j \in 1..(i - 1) : ~SameName(xs[j].name, name)

\* xs with the element at position i taken out.
Removed(xs, i) == [j \in 1..(Len(xs) - 1) |-> IF j < i THEN xs[j] ELSE xs[j + 1]]

\* The entries of xs not named name, in their order.
KeptEntries(xs, name) == SelectSeq(xs, LAMBDA e : ~SameName(e.name, name))

StoreUnchanged ==
    /\ songs = last.pre.songs
    /\ playlists = last.pre.playlists
    /\ undo_stack = last.pre.undo_stack
    /\ file = last.pre.file
    /\ save_stages = <<>>

ConfirmedRemoval ==
    /\ last.op = "remove_song"
    /\ "confirm" \in DOMAIN last.args
    /\ last.args.confirm
    /\ HasName(last.pre.songs, last.args.song_name)

(***************************************************************************)
(* C1: after every completed operation, every entry of every playlist has  *)
(* a song of the same name (ignoring case) in songs.                       *)
(***************************************************************************)
C1_PlaylistEntriesInLibrary ==
    \A k \in 1..Len(playlists) :
        \A e \in 1..Len(playlists[k].songs) :
            HasName(songs, playlists[k].songs[e].name)

\* A cascading removal has run and a playlist still holds an entry.
C1_Witness ==
    /\ ConfirmedRemoval
    /\ Cascaded(last) # {}
    /\ \E k \in 1..Len(playlists) : playlists[k].songs # <<>>

(***************************************************************************)
(* C2: a confirmed removeSong(X) on a library with a song named X removes  *)
(* exactly the first match from songs, pushes exactly the entry            *)
(* (remove, that song), and leaves in every playlist exactly its entries   *)
(* not named X, in their order.                                            *)
(***************************************************************************)
C2_RemoveSongEffect ==
    ConfirmedRemoval =>
        LET X   == last.args.song_name
            pre == last.pre
        IN  /\ \E i \in 1..Len(pre.songs) :
                  /\ IsFirstNamed(pre.songs, X, i)
                  /\ songs = Removed(pre.songs, i)
                  /\ undo_stack = Append(pre.undo_stack, <<"remove", pre.songs[i]>>)
            /\ Len(playlists) = Len(pre.playlists)
            /\ \A k \in 1..Len(playlists) :
                  /\ playlists[k].name = pre.playlists[k].name
                  /\ ~HasName(playlists[k].songs, X)
                  /\ playlists[k].songs = KeptEntries(pre.playlists[k].songs, X)

\* The removal had two songs named X to choose from, and a playlist with
\* an entry named X and an entry of another name.
C2_Witness ==
    /\ ConfirmedRemoval
    /\ Cardinality(Matches(last.pre.songs, last.args.song_name)) >= 2
    /\ \E k \in 1..Len(last.pre.playlists) :
          /\ HasName(last.pre.playlists[k].songs, last.args.song_name)
          /\ playlists[k].songs # <<>>

(***************************************************************************)
(* C3: undo() right after a removeSong(X) that took the song out of one or *)
(* more playlists puts the song back into songs (the count is again what   *)
(* it was before the removal) and into no playlist that lost it.           *)
(***************************************************************************)
UndoAfterCascade ==
    /\ last.op = "undo"
    /\ last.after.op = "remove_song"
    /\ last.after.out = "removed"
    /\ last.after.cascaded # {}

C3_UndoDoesNotRestorePlaylists ==
    UndoAfterCascade =>
        /\ Len(songs) = last.after.count
        /\ songs # <<>>
        /\ songs[Len(songs)] = last.pre.undo_stack[Len(last.pre.undo_stack)][2]
        /\ SameName(songs[Len(songs)].name, last.after.song_name)
        /\ \A k \in last.after.cascaded :
              ~HasName(playlists[k].songs, last.after.song_name)

C3_Witness ==
    /\ UndoAfterCascade
    /\ Cardinality(last.after.cascaded) >= 2

(***************************************************************************)
(* C4: undo() on an empty undo log reports "nothing to undo" and changes   *)
(* nothing: songs, playlists, undo log and file are as before, and the     *)
(* program keeps running.                                                  *)
(***************************************************************************)
C4_UndoOnEmptyLog ==
    (last.op = "undo" /\ last.pre.undo_stack = <<>>) =>
        /\ last.out = "nothing_to_undo"
        /\ StoreUnchanged
        /\ running

C4_Witness ==
    /\ last.op = "undo"
    /\ last.pre.undo_stack = <<>>
    /\ songs # <<>>
    /\ playlists # <<>>

(***************************************************************************)
(* C5: when a mutating operation returns (a song added, a song removed, a  *)
(* song restored by undo, a playlist created, a song added to a playlist), *)
(* the data file holds the serialization of the songs and playlists in     *)
(* memory.                                                                 *)
(***************************************************************************)
Mutated ==
    \/ last.op = "add_multiple_songs" /\ last.out = "added"
    \/ last.op = "remove_song" /\ last.out = "removed"
    \/ last.op = "undo" /\ last.out = "restored"
    \/ last.op = "create_playlist"
    \/ last.op = "add_song_to_playlist" /\ last.out = "added"

C5_FileFollowsMemory ==
    Mutated =>
        /\ file.kind = "json"
        /\ file.top = "object"
        /\ file.data.songs = [i \in 1..Len(songs) |-> Song_to_dict(songs[i])]
        /\ file.data.playlists =
              [k \in 1..Len(playlists) |-> Playlist_to_dict(playlists[k])]

C5_Witness ==
    /\ last.op = "undo"
    /\ last.out = "restored"
    /\ \E k \in 1..Len(playlists) : playlists[k].songs # <<>>
    /\ file # last.pre.file

(***************************************************************************)
(* C6: for every store the operations reach, save followed by load into a  *)
(* fresh store gives back equal songs and playlists, field by field and in *)
(* the same order.                                                         *)
(***************************************************************************)
C6_SaveLoadRoundTrip ==
    LET got == load_data(save_data(songs, playlists))
    IN  /\ got.error = "none"
        /\ Len(got.songs) = Len(songs)
        /\ \A i \in 1..Len(songs) :
              \A f \in SongKeys : got.songs[i][f] = songs[i][f]
        /\ Len(got.playlists) = Len(playlists)
        /\ \A k \in 1..Len(playlists) :
              /\ got.playlists[k].name = playlists[k].name
              /\ got.playlists[k].songs = playlists[k].songs

\* A store with a song of several artists, one of them empty, and a
\* playlist holding the same song twice.
C6_Witness ==
    /\ \E i \in 1..Len(songs) : Len(songs[i].artists) = 3
    /\ \E i \in 1..Len(songs) : Len(songs[i].artists) = 2
    /\ \E k \in 1..Len(playlists) :
          /\ Len(playlists[k].songs) = 2
          /\ playlists[k].songs[1] = playlists[k].songs[2]

(***************************************************************************)
(* C10: addSongToPlaylist(songName, playlistName) changes nothing when no  *)
(* song or no playlist matches; otherwise it appends the first matching    *)
(* song to the end of the first matching playlist, also when the playlist  *)
(* already holds the song, and changes no other playlist and not songs.    *)
(***************************************************************************)
C10_AddSongToPlaylist ==
    last.op = "add_song_to_playlist" =>
        LET X   == last.args.song_name
            P   == last.args.playlist_name
            pre == last.pre
        IN  IF ~HasName(pre.songs, X) \/ ~HasName(pre.playlists, P)
            THEN StoreUnchanged
            ELSE \E i \in 1..Len(pre.songs), k \in 1..Len(pre.playlists) :
                    /\ IsFirstNamed(pre.songs, X, i)
                    /\ IsFirstNamed(pre.playlists, P, k)
                    /\ songs = pre.songs
                    /\ undo_stack = pre.undo_stack
                    /\ Len(playlists) = Len(pre.playlists)
                    /\ playlists[k].name = pre.playlists[k].name
                    /\ playlists[k].songs =
                          Append(pre.playlists[k].songs, pre.songs[i])
                    /\ \A m \in 1..Len(playlists) :
                          m # k => playlists[m] = pre.playlists[m]

\* The song was appended to a playlist that already held it, with a second
\* playlist of a matching name in the store.
C10_Witness ==
    /\ last.op = "add_song_to_playlist"
    /\ last.out = "added"
    /\ Len(playlists) = 2
    /\ SameName(playlists[2].name, last.args.playlist_name)
    /\ Len(playlists[1].songs) = 2
    /\ playlists[1].songs[1] = playlists[1].songs[2]

(***************************************************************************)
(* C7: if the data file exists but is malformed or lacks an expected       *)
(* field, load leaves the store with no songs and no playlists.            *)
(***************************************************************************)
LoadReportedError ==
    /\ last.op = "MusicApp"
    /\ last.out \in CaughtErrors

C7_FailedLoadLeavesStoreEmpty ==
    LoadReportedError => (songs = <<>> /\ playlists = <<>>)

(***************************************************************************)
(* C8: every failure while loading an existing data file is contained in   *)
(* load, which prints a diagnostic and returns, also the failure of a song *)
(* record that fails the validation of Song: no load failure reaches the   *)
(* caller of MusicApp(), so the store is made and the program runs.        *)
(***************************************************************************)
C8_LoadFailuresContained ==
    last.op = "MusicApp" =>
        /\ running
        /\ last.out \in CaughtErrors \cup {"none"}

(***************************************************************************)
(* C9: save is atomic for a reader of the data file: from the open to the  *)
(* close of a save the file holds either its complete previous content or  *)
(* its complete new content.                                               *)
(***************************************************************************)
C9_SaveIsAtomic ==
    \A i \in 1..Len(save_stages) :
        \/ save_stages[i] = save_stages[1]
        \/ save_stages[i] = save_stages[Len(save_stages)]

(***************************************************************************)
(* C11: the undo log is last in, first out.  A confirmed removal puts the  *)
(* removed song on top of the log; an undo on a non-empty log restores the *)
(* song on top, that one only, and leaves the entries below as they were;  *)
(* a completed add of a song, createPlaylist or addSongToPlaylist leaves   *)
(* the log as it was, so the oldest removal stays on it until undone.      *)
(***************************************************************************)
CompletedOther ==
    /\ last.op \in {"add_multiple_songs", "create_playlist",
                    "add_song_to_playlist"}
    /\ last.out \in {"added", "created", "not_found", "invalid_format", "quit"}

C11_UndoIsLifo ==
    /\ (last.op = "undo" /\ last.pre.undo_stack # <<>>) =>
          LET n == Len(last.pre.undo_stack)
          IN  /\ last.out = "restored"
              /\ Len(undo_stack) = n - 1
              /\ \A j \in 1..(n - 1) : undo_stack[j] = last.pre.undo_stack[j]
              /\ songs = last.pre.songs \o <<last.pre.undo_stack[n][2]>>
    /\ ConfirmedRemoval =>
          \E i \in 1..Len(last.pre.songs) :
              /\ IsFirstNamed(last.pre.songs, last.args.song_name, i)
              /\ undo_stack =
                    last.pre.undo_stack \o <<<<"remove", last.pre.songs[i]>>>>
    /\ CompletedOther => undo_stack = last.pre.undo_stack

\* An undo on a log of two different songs, with a playlist made and a song
\* left in the library: the later removal is restored, the older one stays.
C11_Witness ==
    /\ last.op = "undo"
    /\ last.out = "restored"
    /\ Len(last.pre.undo_stack) = 2
    /\ last.pre.undo_stack[1][2] # last.pre.undo_stack[2][2]
    /\ undo_stack = <<last.pre.undo_stack[1]>>
    /\ songs[Len(songs)] = last.pre.undo_stack[2][2]
    /\ last.pre.songs # <<>>
    /\ playlists # <<>>

(***************************************************************************)
(* C12: removeSong(X) changes nothing when no song is named X (ignoring    *)
(* case) and when a song is named X but the confirmation is declined:      *)
(* songs, playlists, undo log and data file are as before, nothing is      *)
(* saved and no undo entry is pushed.                                      *)
(***************************************************************************)
RemovalNotFound ==
    /\ last.op = "remove_song"
    /\ ~HasName(last.pre.songs, last.args.song_name)

RemovalDeclined ==
    /\ last.op = "remove_song"
    /\ HasName(last.pre.songs, last.args.song_name)
    /\ "confirm" \in DOMAIN last.args
    /\ ~last.args.confirm

C12_RemoveSongNoOp ==
    /\ RemovalNotFound => (last.out = "not_found" /\ StoreUnchanged /\ running)
    /\ RemovalDeclined => (last.out = "canceled" /\ StoreUnchanged /\ running)
    /\ (last.op = "remove_song" /\ HasName(last.pre.songs, last.args.song_name))
          => "confirm" \in DOMAIN last.args

\* A declined removal of a song that is in a playlist, with an older
\* removal on the undo log.
C12_Witness ==
    /\ RemovalDeclined
    /\ undo_stack # <<>>
    /\ \E k \in 1..Len(playlists) :
          HasName(playlists[k].songs, last.args.song_name)

\* A removal of a name that no song has, from a library that is not empty.
C12_WitnessNotFound ==
    /\ RemovalNotFound
    /\ songs # <<>>
    /\ undo_stack # <<>>

(***************************************************************************)
(* C13: constructing a song fails with a validation error, and makes no    *)
(* song, whenever the name is empty after trimming whitespace (so also for *)
(* a name of spaces only), whatever the other fields are.                  *)
(***************************************************************************)
BlankName(name) == \A i \in 1..Len(name) : name[i] \in {" ", "\t", "\n"}

C13_BlankNameRejected ==
    (last.op = "Song" /\ BlankName(last.args.name)) =>
        /\ last.out = "ValueError"
        /\ songs = <<>>

(***************************************************************************)
(* C14: with a name that is accepted, constructing a song succeeds exactly *)
(* when the duration is one or more digits, a colon and two digits that    *)
(* are seconds from 00 to 59; for every other text it fails with a         *)
(* validation error and makes no song.                                     *)
(***************************************************************************)
WellFormedDuration(d) ==
    \E n \in 1..Len(d) :
        /\ Len(d) = n + 3
        /\ \A i \in 1..n : d[i] \in {"0", "1", "2", "3", "4", "5", "6", "7",
                                      "8", "9"}
        /\ d[n + 1] = ":"
        /\ d[n + 2] \in {"0", "1", "2", "3", "4", "5"}
        /\ d[n + 3] \in {"0", "1", "2", "3", "4", "5", "6", "7", "8", "9"}

C14_DurationAcceptedExactly ==
    (last.op = "Song" /\ last.args.name # <<>>) =>
        IF WellFormedDuration(last.args.duration)
        THEN /\ last.out = "made"
             /\ Len(songs) = 1
             /\ songs[1].duration = last.args.duration
        ELSE /\ last.out = "ValueError"
             /\ songs = <<>>

(***************************************************************************)
(* C15: Playlist.remove_song(name) removes every entry named name          *)
(* (ignoring case), all duplicates and not only the first, keeps the other *)
(* entries in their order, and changes nothing, without an error, when no  *)
(* entry is named name.                                                    *)
(***************************************************************************)
C15_PlaylistRemoveSong ==
    last.op = "Playlist.remove_song" =>
        LET before == last.pre.playlists[1]
            name   == last.args.song_name
        IN  /\ last.out = "none"
            /\ Len(playlists) = 1
            /\ playlists[1].name = before.name
            /\ ~HasName(playlists[1].songs, name)
            /\ playlists[1].songs = KeptEntries(before.songs, name)
            /\ ~HasName(before.songs, name) => playlists[1] = before

\* Two entries named name with another entry between them: both are
\* removed, the other entry stays.
C15_Witness ==
    /\ last.op = "Playlist.remove_song"
    /\ Len(last.pre.playlists[1].songs) = 3
    /\ SameName(last.pre.playlists[1].songs[1].name, last.args.song_name)
    /\ ~SameName(last.pre.playlists[1].songs[2].name, last.args.song_name)
    /\ SameName(last.pre.playlists[1].songs[3].name, last.args.song_name)
    /\ playlists[1].songs = <<last.pre.playlists[1].songs[2]>>

\* No entry is named name: the playlist is as before.
C15_WitnessNoMatch ==
    /\ last.op = "Playlist.remove_song"
    /\ last.pre.playlists[1].songs # <<>>
    /\ ~HasName(last.pre.playlists[1].songs, last.args.song_name)
    /\ playlists = last.pre.playlists

(***************************************************************************)
(* C16: exporting a playlist with no entries writes the line with the      *)
(* name of the playlist and no "Songs:" line; exporting a playlist with    *)
(* entries writes the name line, a "Songs:" line and one line for each     *)
(* entry, in the order of the playlist, with the name, the artists and the *)
(* duration of that entry; for a name that no playlist has, not-found is   *)
(* reported and no export is written.                                      *)
(***************************************************************************)
\* part occurs in text
Holds(text, part) ==
    \E o \in 1..(Len(text) - Len(part) + 1) :
        \A i \in 1..Len(part) : text[o + i - 1] = part[i]

IsNameLine(text, playlist) ==
    /\ Holds(text, <<"P", "l", "a", "y", "l", "i", "s", "t", ":", " ">>
                      \o playlist.name)
    /\ text[Len(text)] = "\n"

IsSongsLine(text) == text = <<"S", "o", "n", "g", "s", ":", "\n">>

IsEntryLine(text, song) ==
    /\ Holds(text, song.name)
    /\ \A a \in 1..Len(song.artists) : Holds(text, song.artists[a])
    /\ Holds(text, song.duration)
    /\ text[Len(text)] = "\n"
    /\ \A i \in 1..(Len(text) - 1) : text[i] # "\n"

C16_ExportPlaylist ==
    last.op = "export_playlist" =>
        LET ps   == last.pre.playlists
            name == last.args.playlist_name
        IN  IF ~HasName(ps, name)
            THEN /\ last.out = "not_found"
                 /\ ~export_file.written
            ELSE \E k \in 1..Len(ps) :
                    /\ IsFirstNamed(ps, name, k)
                    /\ last.out = "exported"
                    /\ export_file.written
                    /\ IsNameLine(export_file.content[1], ps[k])
                    /\ \A i \in 1..Len(export_file.content) :
                           IsSongsLine(export_file.content[i]) <=>
                               (i = 2 /\ ps[k].songs # <<>>)
                    /\ IF ps[k].songs = <<>>
                       THEN Len(export_file.content) = 1
                       ELSE /\ Len(export_file.content) = 2 + Len(ps[k].songs)
                            /\ \A i \in 1..Len(ps[k].songs) :
                                   IsEntryLine(export_file.content[2 + i],
                                               ps[k].songs[i])

\* An export of a playlist with two different entries.
C16_Witness ==
    /\ last.op = "export_playlist"
    /\ export_file.written
    /\ Len(export_file.content) = 4
    /\ export_file.content[3] # export_file.content[4]

\* An export of a playlist with no entries, while another playlist has one.
C16_WitnessEmpty ==
    /\ last.op = "export_playlist"
    /\ export_file.written
    /\ Len(export_file.content) = 1
    /\ \E k \in 1..Len(playlists) : playlists[k].songs # <<>>

\* An export of a name that no playlist has, while playlists exist.
C16_WitnessNotFound ==
    /\ last.op = "export_playlist"
    /\ last.out = "not_found"
    /\ playlists # <<>>

(***************************************************************************)
(* C17: createPlaylist(name) always succeeds, also when a playlist of the  *)
(* same name (ignoring case) exists: one new playlist with that name and   *)
(* no entries is appended at the end of playlists, and songs, the          *)
(* playlists there were and the undo log are unchanged.                    *)
(***************************************************************************)
C17_CreatePlaylist ==
    last.op = "create_playlist" =>
        LET n == Len(last.pre.playlists)
        IN  /\ last.out = "created"
            /\ running
            /\ Len(playlists) = n + 1
            /\ \A k \in 1..n : playlists[k] = last.pre.playlists[k]
            /\ playlists[n + 1].name = last.args.name
            /\ playlists[n + 1].songs = <<>>
            /\ songs = last.pre.songs
            /\ undo_stack = last.pre.undo_stack

\* A playlist made under a name that a playlist with an entry already has,
\* in a different case, with a removal on the undo log.
C17_Witness ==
    /\ last.op = "create_playlist"
    /\ last.pre.playlists # <<>>
    /\ SameName(last.pre.playlists[1].name, last.args.name)
    /\ last.pre.playlists[1].name # last.args.name
    /\ last.pre.playlists[1].songs # <<>>
    /\ Len(playlists) = 2
    /\ undo_stack # <<>>

(***************************************************************************)
(* C18: the undo log does not survive a restart.  A run that starts after  *)
(* a run with removals on its undo log ended has an empty undo log and the *)
(* songs the ended run had at its end, without the removed ones; its first *)
(* undo() reports nothing to undo and restores nothing.                    *)
(***************************************************************************)
RestartedAfterRemovals ==
    /\ last.op = "MusicApp"
    /\ last.after.op = "ended"
    /\ last.after.undo_stack # <<>>

UndoAfterRestart ==
    /\ last.op = "undo"
    /\ last.after.op = "MusicApp"
    /\ last.after.undo_stack # <<>>

C18_UndoLogNotPersisted ==
    /\ RestartedAfterRemovals =>
          /\ running
          /\ undo_stack = <<>>
          /\ songs = last.after.songs
    /\ UndoAfterRestart =>
          /\ last.out = "nothing_to_undo"
          /\ undo_stack = <<>>
          /\ songs = last.after.songs
          /\ StoreUnchanged

\* The first undo of a run that follows a run with two removals on its undo
\* log and a song left.
C18_Witness ==
    /\ UndoAfterRestart
    /\ Len(last.after.undo_stack) = 2
    /\ songs # <<>>

(***************************************************************************)
(* C19: a validation error raised while a song is added (a duration such   *)
(* as "5:99", which passes the check of the add loop and fails in Song)    *)
(* aborts that add only: songs, playlists, undo log and data file are as   *)
(* before, and the program keeps running and takes further operations.     *)
(***************************************************************************)
AddRaisedValidationError ==
    /\ last.op = "add_multiple_songs"
    /\ last.out = "ValueError"

C19_ValidationErrorAbortsOnlyTheAdd ==
    AddRaisedValidationError =>
        /\ file = last.pre.file
        /\ running
        /\ songs = last.pre.songs
        /\ playlists = last.pre.playlists
        /\ undo_stack = last.pre.undo_stack

(***************************************************************************)
(* C20: only removeSong pushes onto the undo log and only undo pops from   *)
(* it.  Every entry of the log has kind 'remove'; the length of the log is *)
(* the number of removals completed less the number of undos that restored *)
(* a song; an add of a song, createPlaylist, addSongToPlaylist, a search,  *)
(* an export, and a save followed by a load leave the log as it was; a     *)
(* load into a new store leaves the log empty as constructed.              *)
(***************************************************************************)
LeavesUndoLog ==
    /\ running
    /\ last.op \in {"add_multiple_songs", "create_playlist",
                    "add_song_to_playlist", "search_songs", "export_playlist",
                    "test_save_and_load"}

C20_OnlyRemovePushesOnlyUndoPops ==
    /\ \A i \in 1..Len(undo_stack) : undo_stack[i][1] = "remove"
    /\ Len(undo_stack) = net_removals
    /\ LeavesUndoLog => undo_stack = last.pre.undo_stack
    /\ last.op = "MusicApp" => undo_stack = <<>>
    /\ Len(undo_stack) > Len(last.pre.undo_stack) =>
          /\ last.op = "remove_song"
          /\ last.out = "removed"
          /\ Len(undo_stack) = Len(last.pre.undo_stack) + 1
    /\ (running /\ Len(undo_stack) < Len(last.pre.undo_stack)) =>
          /\ last.op = "undo"
          /\ last.out = "restored"
          /\ Len(undo_stack) = Len(last.pre.undo_stack) - 1

\* A save and load of a store with a song in a playlist, after two removals
\* and one undo: one entry is on the log.
C20_Witness ==
    /\ last.op = "test_save_and_load"
    /\ net_removals = 1
    /\ Len(undo_stack) = 1
    /\ Len(songs) = 2
    /\ \E k \in 1..Len(playlists) : playlists[k].songs # <<>>

(***************************************************************************)
(* C21: a search and an export are read-only on the store: for every term  *)
(* and every playlist name, found or not, songs, playlists, the undo log   *)
(* and the data file are as before and nothing is saved; a search returns  *)
(* exactly the songs whose name contains the term, ignoring case, in the   *)
(* order of songs.                                                         *)
(***************************************************************************)
NameHasTerm(song, term) == Holds(lower(song.name), lower(term))

C21_SearchAndExportReadOnly ==
    /\ last.op \in {"search_songs", "export_playlist"} =>
          /\ StoreUnchanged
          /\ running
    /\ last.op = "search_songs" =>
          /\ last.args.results =
                SelectSeq(last.pre.songs,
                          LAMBDA song : NameHasTerm(song, last.args.search_term))
          /\ last.out = IF \E i \in 1..Len(last.pre.songs) :
                               NameHasTerm(last.pre.songs[i],
                                           last.args.search_term)
                        THEN "results" ELSE "no_match"

\* A search that finds the first and the third of three songs, the first
\* under a name in the other case, in a store that has a
\* playlist.
C21_Witness ==
    /\ last.op = "search_songs"
    /\ Len(songs) = 3
    /\ last.args.results = <<songs[1], songs[3]>>
    /\ songs[1].name # last.args.search_term
    /\ playlists # <<>>
    /\ file = last.pre.file

\* An export that wrote a file, of a store with a removal on the undo log.
C21_WitnessExport ==
    /\ last.op = "export_playlist"
    /\ export_file.written
    /\ undo_stack # <<>>
    /\ songs # <<>>

\* A search that finds nothing in a library that is not empty.
C21_WitnessNoMatch ==
    /\ last.op = "search_songs"
    /\ last.out = "no_match"
    /\ songs # <<>>

(***************************************************************************)
(* C22: undo() puts the restored song at the end of songs, not at the      *)
(* position it was removed from.  After removeSong(X) followed at once by  *)
(* undo(), songs is the sequence before the removal with the removed song  *)
(* taken out of its position and placed last, the other songs in their     *)
(* order; so the sequence before the removal is back when the removed song *)
(* was the last one, and is not back when a different song stood after it. *)
(***************************************************************************)
UndoRightAfterRemoval ==
    /\ last.op = "undo"
    /\ last.after.op = "remove_song"
    /\ last.after.out = "removed"

C22_UndoAppendsAtEnd ==
    UndoRightAfterRemoval =>
        LET before == last.after.songs
            n      == Len(before)
        IN  \E i \in 1..n :
               /\ IsFirstNamed(before, last.after.song_name, i)
               /\ Len(songs) = n
               /\ \A j \in 1..(n - 1) :
                      songs[j] = IF j < i THEN before[j] ELSE before[j + 1]
               /\ songs[n] = before[i]
               /\ i = n => songs = before
               /\ (\E j \in (i + 1)..n : before[j] # before[i]) =>
                      songs # before

\* The first of three different songs is removed and restored: it is last.
C22_Witness ==
    /\ UndoRightAfterRemoval
    /\ Len(songs) = 3
    /\ last.after.songs = <<songs[3], songs[1], songs[2]>>
    /\ songs[1] # songs[2]
    /\ songs[1] # songs[3]
    /\ songs[2] # songs[3]

\* The last of three songs is removed and restored: songs is as before.
C22_WitnessLast ==
    /\ UndoRightAfterRemoval
    /\ Len(songs) = 3
    /\ songs[3] # songs[1]
    /\ songs[3] # songs[2]
    /\ last.after.songs = songs

(***************************************************************************)
(* C23: from an empty store, after any operations (removals, undos, adds   *)
(* of songs of the same name, ignoring case, with different other fields), *)
(* every entry of every playlist is equal, field for field, to the first   *)
(* song of songs that has its name, ignoring case; so the cascade of a     *)
(* removal takes from the playlists only entries equal to the song that is *)
(* removed from songs.                                                     *)
(***************************************************************************)
EntryIsFirstOfItsName(ss, entry) ==
    \E i \in 1..Len(ss) :
        /\ IsFirstNamed(ss, entry.name, i)
        /\ \A f \in {"name", "artists", "album", "genre", "duration"} :
               ss[i][f] = entry[f]

C23_EntriesAreFirstOfTheirName ==
    /\ \A k \in 1..Len(playlists) :
          \A e \in 1..Len(playlists[k].songs) :
              EntryIsFirstOfItsName(songs, playlists[k].songs[e])
    /\ ConfirmedRemoval =>
          \A k \in 1..Len(last.pre.playlists) :
              \A e \in 1..Len(last.pre.playlists[k].songs) :
                  SameName(last.pre.playlists[k].songs[e].name,
                           last.args.song_name) =>
                      /\ undo_stack # <<>>
                      /\ last.pre.playlists[k].songs[e] =
                            undo_stack[Len(undo_stack)][2]

\* Two songs of the same name with different fields, the second restored
\* by an undo, and a playlist entry of that name.
C23_Witness ==
    /\ last.op = "undo"
    /\ last.out = "restored"
    /\ \E i \in 1..Len(songs) :
          /\ i < Len(songs)
          /\ SameName(songs[i].name, songs[Len(songs)].name)
          /\ songs[i] # songs[Len(songs)]
          /\ \E k \in 1..Len(playlists) :
                 HasName(playlists[k].songs, songs[i].name)

\* A confirmed removal from two songs of the same name with different
\* fields, with a playlist entry of that name taken by the cascade.
C23_WitnessCascade ==
    /\ ConfirmedRemoval
    /\ \E i, j \in 1..Len(last.pre.songs) :
          /\ i < j
          /\ SameName(last.pre.songs[i].name, last.args.song_name)
          /\ SameName(last.pre.songs[j].name, last.args.song_name)
          /\ last.pre.songs[i] # last.pre.songs[j]
    /\ \E k \in 1..Len(last.pre.playlists) :
          HasName(last.pre.playlists[k].songs, last.args.song_name)

(***************************************************************************)
(* C24: in a run, no song is lost or duplicated by the operations: each    *)
(* song the run added (or began with; a run from an empty store begins     *)
(* with none) is in songs or is the payload of an entry of the undo log,   *)
(* as many times as it was added and no more, and nothing else is there;   *)
(* so the number of songs and the length of the undo log come to the       *)
(* number of successful adds.                                              *)
(***************************************************************************)
TimesIn(xs, x) == Cardinality({i \in 1..Len(xs) : xs[i] = x})

Payloads == [i \in 1..Len(undo_stack) |-> undo_stack[i][2]]

TimesAdded(song) == IF song \in DOMAIN added THEN added[song] ELSE 0

C24_NoSongLostOrDuplicated ==
    LET held  == {songs[i] : i \in 1..Len(songs)} \cup
                 {Payloads[i] : i \in 1..Len(Payloads)}
        total == IF DOMAIN added = {} THEN 0
                 ELSE LET S == DOMAIN added
                          sum[T \in SUBSET S] ==
                              IF T = {} THEN 0
                              ELSE LET x == CHOOSE x \in T : TRUE
                                   IN  added[x] + sum[T \ {x}]
                      IN  sum[S]
    IN  /\ \A song \in held \cup DOMAIN added :
              TimesIn(songs, song) + TimesIn(Payloads, song) = TimesAdded(song)
        /\ Len(songs) + Len(undo_stack) = total

\* The same five texts added twice and another song added once; one of the
\* two equal songs is on the undo log, the other in songs, after an undo
\* restored the third.
C24_Witness ==
    /\ last.op = "undo"
    /\ last.out = "restored"
    /\ Len(songs) = 2
    /\ Len(undo_stack) = 1
    /\ \E i \in 1..2 : songs[i] = undo_stack[1][2]
    /\ songs[1] # songs[2]
    /\ playlists # <<>>

====
